---------------------------- MODULE Spec2Model ----------------------------
(***************************************************************************)
(* Model of scripts/release.py: the release run (version validation,       *)
(* repository inspection, release preparation, confirmation, publishing)   *)
(* and the line-oriented text editor change_line.                           *)
(*                                                                         *)
(* Text is modelled character by character: a string is a sequence of      *)
(* one-character strings, a file is the sequence of its characters.        *)
(***************************************************************************)
EXTENDS Integers, Sequences, FiniteSets, TLC

VARIABLES
    \* ---- text editor (change_line, one step per statement) ----
    epc,        \* position inside change_line
    given,      \* the file at `path`
    tmp,        \* the file at `tmp_path`
    it,         \* lines the `for got_line in given_file` loop has yet to read
    job,        \* the arguments of the running call: [line, to]
    jobs,       \* the calls still to make, in order
    before,     \* the content of `path` when the running call began
    orig,       \* the content of `path` before the first call
    \* ---- the release run (main) ----
    pc,         \* the statement of main the process is about to execute
    cur,        \* the repository check_repo_state is inspecting
    argv,       \* sys.argv
    version,    \* the validated version, <<>> before get_version returned
    clock,      \* what datetime.now() / datetime.today() read
    exit_status,\* -1 while the process runs, then its exit status
    url,        \* per repository: remote.upstream.url ("" when unset)
    branch,     \* per repository: the current branch ("" on a detached HEAD)
    work,       \* per repository: the working tree, path -> file
    index,      \* per repository: the staged tree
    local,      \* per repository: the commits of the current branch, oldest first
    tags,       \* per repository: the set of tags [name, message, target]
    tracking,   \* per repository: ids reachable from upstream/<branch>
    remote,     \* per repository and remote: [branch: ids, tags: names]
    log,        \* every command run and file operation made, in order
    start,      \* the repositories as they were when the run began
    \* ---- the task sections (task, log.indent) ----
    lpc,        \* position in the nest of `with task(...)` blocks of main
    indent,     \* log.indent
    tasks,      \* the task sections that are open, outermost first
    raised,     \* the exception that is propagating, "" when none
    left,       \* the section left last: log.indent before it and after it
    \* ---- a second invocation on the same repositories ----
    who,        \* the invocation that takes the next step: 1 or 2
    other,      \* the process state of the invocation that does not
    invoked_at  \* where invocation 1 was when invocation 2 started

evars == <<epc, given, tmp, it, job, jobs, before, orig>>
rvars == <<pc, cur, argv, version, clock, exit_status, url, branch, work, index,
           local, tags, tracking, remote, log, start>>
lvars == <<lpc, indent, tasks, raised, left>>
ovars == <<who, other, invoked_at>>
vars == <<evars, rvars, lvars, ovars>>

-----------------------------------------------------------------------------
(* Bounds *)

MaxLines == 3

-----------------------------------------------------------------------------
(* Characters and text I/O *)

LF == "\n"
CR == "\r"

\* os.linesep (POSIX)
linesep == <<LF>>

RECURSIVE Join(_)
Join(ss) == IF ss = <<>> THEN <<>> ELSE Head(ss) \o Join(Tail(ss))

\* Text-mode read (newline=None): "\r\n" and a lone "\r" are read as "\n".
RECURSIVE universal_newlines(_)
universal_newlines(data) ==
    IF data = <<>> THEN <<>>
    ELSE IF Head(data) = CR
         THEN IF Len(data) >= 2 /\ data[2] = LF
              THEN <<LF>> \o universal_newlines(SubSeq(data, 3, Len(data)))
              ELSE <<LF>> \o universal_newlines(Tail(data))
         ELSE <<Head(data)>> \o universal_newlines(Tail(data))

\* Index of the first "\n" of text, 0 if there is none.
FirstLF(text) ==
    IF \E i \in 1..Len(text) : text[i] = LF
    THEN CHOOSE i \in 1..Len(text) : text[i] = LF /\ \A j \in 1..(i - 1) : text[j] /= LF
    ELSE 0

\* Iterating a text file: each line keeps its "\n"; a last line may have none.
RECURSIVE readlines(_)
readlines(text) ==
    IF text = <<>> THEN <<>>
    ELSE LET n == FirstLF(text)
         IN IF n = 0 THEN <<text>>
            ELSE <<SubSeq(text, 1, n)>> \o readlines(SubSeq(text, n + 1, Len(text)))

\* Text-mode write (newline=None): every "\n" is written as os.linesep.
RECURSIVE write_text(_)
write_text(s) ==
    IF s = <<>> THEN <<>>
    ELSE (IF Head(s) = LF THEN linesep ELSE <<Head(s)>>) \o write_text(Tail(s))

-----------------------------------------------------------------------------
(* change_line *)

\* for replacement in to: tmp_file.write(replacement + "\n")
replacement_text(to) == Join([i \in 1..Len(to) |-> to[i] \o <<LF>>])

\* Mutant: a line is replaced when it starts with `line`.
rewrite_line_startswith(got_line, line, to) ==
    IF Len(got_line) >= Len(line) /\ SubSeq(got_line, 1, Len(line)) = line /\ got_line[Len(got_line)] = LF
    THEN replacement_text(to)
    ELSE got_line

\* One pass of the loop body: what is written for got_line.
rewrite_line(got_line, line, to) ==
    IF got_line /= line \o <<LF>> THEN got_line
    ELSE replacement_text(to)

\* The whole of change_line as a function of the file's content.
change_line(data, line, to) ==
    LET ls == readlines(universal_newlines(data))
    IN Join([i \in 1..Len(ls) |-> write_text(rewrite_line(ls[i], line, to))])

NoFile == [exists |-> FALSE, data |-> <<>>, mode |-> "none"]
File(data, mode) == [exists |-> TRUE, data |-> data, mode |-> mode]

\* fh, tmp_path = tempfile.mkstemp()
Mkstemp ==
    /\ epc = "mkstemp"
    /\ tmp' = File(<<>>, "600")
    /\ epc' = "open"
    /\ UNCHANGED <<given, it, job, jobs, before, orig>>
    /\ UNCHANGED <<rvars, lvars, ovars>>

\* with os.fdopen(fh, "w") as tmp_file, path.open() as given_file
OpenFiles ==
    /\ epc = "open"
    /\ given.exists
    /\ it' = readlines(universal_newlines(given.data))
    /\ epc' = "loop"
    /\ UNCHANGED <<given, tmp, job, jobs, before, orig>>
    /\ UNCHANGED <<rvars, lvars, ovars>>

\* one iteration of `for got_line in given_file`
LoopLine ==
    /\ epc = "loop"
    /\ it /= <<>>
    /\ tmp' = [tmp EXCEPT !.data = @ \o write_text(rewrite_line(Head(it), job.line, job.to))]
    /\ it' = Tail(it)
    /\ UNCHANGED <<epc, given, job, jobs, before, orig>>
    /\ UNCHANGED <<rvars, lvars, ovars>>

\* the loop is exhausted and the with-block closes both files
CloseFiles ==
    /\ epc = "loop"
    /\ it = <<>>
    /\ epc' = "copymode"
    /\ UNCHANGED <<given, tmp, it, job, jobs, before, orig>>
    /\ UNCHANGED <<rvars, lvars, ovars>>

\* shutil.copymode(path, tmp_path)
Copymode ==
    /\ epc = "copymode"
    /\ tmp' = [tmp EXCEPT !.mode = given.mode]
    /\ epc' = "unlink"
    /\ UNCHANGED <<given, it, job, jobs, before, orig>>
    /\ UNCHANGED <<rvars, lvars, ovars>>

\* path.unlink()
Unlink ==
    /\ epc = "unlink"
    /\ given' = NoFile
    /\ epc' = "move"
    /\ UNCHANGED <<tmp, it, job, jobs, before, orig>>
    /\ UNCHANGED <<rvars, lvars, ovars>>

\* shutil.move(tmp_path, path) when both are on one filesystem: os.rename
MoveRename ==
    /\ epc = "move"
    /\ given' = tmp
    /\ tmp' = NoFile
    /\ epc' = "done"
    /\ UNCHANGED <<it, job, jobs, before, orig>>
    /\ UNCHANGED <<rvars, lvars, ovars>>

\* shutil.move across filesystems: os.rename fails, copy2 opens the destination
MoveCopyOpen ==
    /\ epc = "move"
    /\ given' = File(<<>>, "644")
    /\ epc' = "move_copy"
    /\ UNCHANGED <<tmp, it, job, jobs, before, orig>>
    /\ UNCHANGED <<rvars, lvars, ovars>>

\* copy2 writes the data and copies the mode
MoveCopyData ==
    /\ epc = "move_copy"
    /\ given' = tmp
    /\ epc' = "move_unlink"
    /\ UNCHANGED <<tmp, it, job, jobs, before, orig>>
    /\ UNCHANGED <<rvars, lvars, ovars>>

\* shutil.move removes the source after the copy
MoveUnlinkSrc ==
    /\ epc = "move_unlink"
    /\ tmp' = NoFile
    /\ epc' = "done"
    /\ UNCHANGED <<given, it, job, jobs, before, orig>>
    /\ UNCHANGED <<rvars, lvars, ovars>>

\* the caller makes its next change_line call on the same path
NextEdit ==
    /\ epc = "done"
    /\ jobs /= <<>>
    /\ job' = Head(jobs)
    /\ jobs' = Tail(jobs)
    /\ before' = given.data
    /\ epc' = "mkstemp"
    /\ UNCHANGED <<given, tmp, it, orig>>
    /\ UNCHANGED <<rvars, lvars, ovars>>

\* the process is terminated between two statements of change_line
Crash ==
    /\ epc \notin {"done", "crashed"}
    /\ epc' = "crashed"
    /\ UNCHANGED <<given, tmp, it, job, jobs, before, orig>>
    /\ UNCHANGED <<rvars, lvars, ovars>>

-----------------------------------------------------------------------------
(* String helpers *)

Digits == <<"0", "1", "2", "3", "4", "5", "6", "7", "8", "9">>

\* str(n) for a non-negative integer
RECURSIVE str(_)
str(n) == IF n < 10 THEN <<Digits[n + 1]>> ELSE str(n \div 10) \o <<Digits[(n % 10) + 1]>>

\* a "%0<width>d" field of strftime
RECURSIVE zero_pad(_, _)
zero_pad(s, width) == IF Len(s) >= width THEN s ELSE zero_pad(<<"0">> \o s, width)

\* datetime.today().strftime("%Y-%m-%d")
strftime(today) ==
    zero_pad(str(today.year), 4) \o <<"-">> \o zero_pad(str(today.month), 2)
        \o <<"-">> \o zero_pad(str(today.day), 2)

\* s.split(sep) for a one-character separator
RECURSIVE split(_, _)
split(s, sep) ==
    IF \E i \in 1..Len(s) : s[i] = sep
    THEN LET n == CHOOSE i \in 1..Len(s) : s[i] = sep /\ \A j \in 1..(i - 1) : s[j] /= sep
         IN <<SubSeq(s, 1, n - 1)>> \o split(SubSeq(s, n + 1, Len(s)), sep)
    ELSE <<s>>

\* Index of the first occurrence of character c in s, 0 if there is none.
find(s, c) ==
    IF \E i \in 1..Len(s) : s[i] = c
    THEN CHOOSE i \in 1..Len(s) : s[i] = c /\ \A j \in 1..(i - 1) : s[j] /= c
    ELSE 0

\* "=" * n
RECURSIVE repeat(_, _)
repeat(c, n) == IF n <= 0 THEN <<>> ELSE <<c>> \o repeat(c, n - 1)

-----------------------------------------------------------------------------
(* get_version and SEMVER_REGEX *)

AsciiDigit == {"0", "1", "2", "3", "4", "5", "6", "7", "8", "9"}
NonZeroDigit == AsciiDigit \ {"0"}
\* \d of a str pattern matches every Unicode decimal digit; "U+0663" stands
\* for one that is not ASCII (ARABIC-INDIC DIGIT THREE)
UnicodeDigit == AsciiDigit \cup {"U+0663"}
Letter == {"a", "b", "c", "r", "x", "A", "Z"}
AlnumHyphen == AsciiDigit \cup Letter \cup {"-"}

All(s, class) == \A i \in 1..Len(s) : s[i] \in class

\* 0|[1-9]\d*
numeric(s) ==
    \/ s = <<"0">>
    \/ Len(s) >= 1 /\ s[1] \in NonZeroDigit /\ All(Tail(s), UnicodeDigit)

\* 0|[1-9]\d*|\d*[a-zA-Z-][0-9a-zA-Z-]*
prerelease_identifier(s) ==
    \/ numeric(s)
    \/ \E i \in 1..Len(s) :
          /\ All(SubSeq(s, 1, i - 1), UnicodeDigit)
          /\ s[i] \in Letter \cup {"-"}
          /\ All(SubSeq(s, i + 1, Len(s)), AlnumHyphen)

\* [0-9a-zA-Z-]+
build_identifier(s) == Len(s) >= 1 /\ All(s, AlnumHyphen)

\* The parts of a candidate: core, prerelease after the first "-" (of the
\* text before the first "+"), build metadata after the first "+".
semver_parts(s) ==
    LET p == find(s, "+")
        front == IF p = 0 THEN s ELSE SubSeq(s, 1, p - 1)
        h == find(front, "-")
    IN [core |-> IF h = 0 THEN front ELSE SubSeq(front, 1, h - 1),
        has_pre |-> h /= 0,
        prerelease |-> IF h = 0 THEN <<>> ELSE SubSeq(front, h + 1, Len(front)),
        has_build |-> p /= 0,
        buildmetadata |-> IF p = 0 THEN <<>> ELSE SubSeq(s, p + 1, Len(s))]

\* the pattern between ^ and $
semver_body(s) ==
    LET m == semver_parts(s)
        core == split(m.core, ".")
        pre == split(m.prerelease, ".")
        build == split(m.buildmetadata, ".")
    IN /\ Len(core) = 3
       /\ \A i \in 1..3 : numeric(core[i])
       /\ m.has_pre => \A i \in 1..Len(pre) : prerelease_identifier(pre[i])
       /\ m.has_build => \A i \in 1..Len(build) : build_identifier(build[i])

\* SEMVER_REGEX.match(version) is not None: "$" matches at the end of the
\* string and also just before a newline that ends the string.
SEMVER_REGEX_match(s) ==
    \/ semver_body(s)
    \/ Len(s) >= 1 /\ s[Len(s)] = LF /\ semver_body(SubSeq(s, 1, Len(s) - 1))

\* match.group("buildmetadata") of a matching string
group_buildmetadata(s) ==
    LET t == IF Len(s) >= 1 /\ s[Len(s)] = LF THEN SubSeq(s, 1, Len(s) - 1) ELSE s
    IN semver_parts(t).buildmetadata

\* get_version(): the three assertions; args is sys.argv
get_version_ok(args) ==
    /\ Len(args) = 2
    /\ SEMVER_REGEX_match(args[2])
    /\ group_buildmetadata(args[2]) = <<>>

-----------------------------------------------------------------------------
(* The literals of prepare_release *)

unreleased_heading == <<"#", "#", " ", "u", "n", "r", "e", "l", "e", "a", "s", "e", "d">>
Nothing == <<"N", "o", "t", "h", "i", "n", "g", ".">>

\* f"## {version} / {date}"
release_heading(v, date) == <<"#", "#", " ">> \o v \o <<" ", "/", " ">> \o date

\* f"Release v{version}"
release_message(v) == <<"R", "e", "l", "e", "a", "s", "e", " ", "v">> \o v

\* change_line(changelog, line=unreleased_heading, to=[release_heading])
release_edit(v, date) ==
    [line |-> unreleased_heading, to |-> <<release_heading(v, date)>>]

\* change_line(changelog, line=release_heading, to=[unreleased_heading, "", "Nothing.", "", release_heading])
development_edit(v, date) ==
    [line |-> release_heading(v, date),
     to |-> <<unreleased_heading, <<>>, Nothing, <<>>, release_heading(v, date)>>]

-----------------------------------------------------------------------------
(* The repositories and the version-control collaborator *)

spec_repo == "toml"
website_repo == "toml.io"
Repos == {spec_repo, website_repo}
Remotes == {"origin", "upstream"}

changelog == "CHANGELOG.md"
source_md == "toml.md"
destination_md == "specs/en/v{version}.md"
Paths == {changelog, source_md, destination_md, "scratch.txt"}

\* f"git@github.com:toml-lang/{name}.git"
expected_upstream(name) == "git@github.com:toml-lang/" \o name \o ".git"

Ids(commits) == {commits[i].id : i \in 1..Len(commits)}
HEAD(r) == local[r][Len(local[r])]

\* Mutant: untracked files are not reported (git status --porcelain -uno)
status_porcelain_tracked(r) ==
    {p \in Paths : HEAD(r).tree[p].exists
                    /\ (work[r][p] /= HEAD(r).tree[p] \/ index[r][p] /= HEAD(r).tree[p])}

\* git status --porcelain: the paths that differ between HEAD, index and working tree
status_porcelain(r) ==
    {p \in Paths : work[r][p] /= HEAD(r).tree[p] \/ index[r][p] /= HEAD(r).tree[p]}

\* git rev-list a..b --left-right: the commits reachable from b and not from a
rev_list(a, b) == b \ a

\* the return codes a command can end with: it fails when git must refuse,
\* and may fail for a reason outside the model (network, hooks, locks)
ReturnCodes(can_succeed) == IF can_succeed THEN {0, 1} ELSE {1}

valid_refname(name) == name /= <<>> /\ \A i \in 1..Len(name) : name[i] \notin {LF, CR, " "}

git_tag_ok(r, name) ==
    /\ valid_refname(name)
    /\ \A t \in tags[r] : t.name /= name

git_add_ok(r, path) == work[r][path].exists \/ HEAD(r).tree[path].exists

\* "nothing to commit" ends git commit with status 1
git_commit_ok(r) == index[r] /= HEAD(r).tree

git_push_ok(r, rm, tag) ==
    /\ remote[r][rm].branch \subseteq Ids(local[r])
    /\ tag /= <<>> => \E t \in tags[r] : t.name = tag
    /\ tag /= <<>> => tag \notin remote[r][rm].tags

Event(op, r, path, arg, rm, rc) ==
    [op |-> op, repo |-> r, path |-> path, arg |-> arg, remote |-> rm, rc |-> rc]

\* run(*args, cwd=repo) as seen by the log
Logged(op, r, path, arg, rm, rc) == log' = Append(log, Event(op, r, path, arg, rm, rc))

\* Mutant: the process exits with status 0
Exit0 == pc' = "exit" /\ exit_status' = 0

\* sys.exit(1) from task(), or an exception no task() catches
Exit1 == pc' = "exit" /\ exit_status' = 1

-----------------------------------------------------------------------------
(* The order of the statements *)

\* Mutant: the remote is updated before the working tree is looked at.
check_steps_fetch_first == <<"config", "branch", "remote_update", "status", "rev_list">>

\* check_repo_state: the four checks of one repository, in order
check_steps == <<"config", "branch", "status", "remote_update", "rev_list">>

\* Mutant: the website repository gets its backup tag after the first edit.
main_steps_backup_late ==
    <<"backup_spec",
      "edit_release",
      "backup_web",
      "add_release", "commit_release",
      "tag_release",
      "edit_dev", "add_dev", "commit_dev",
      "copy", "title", "underline", "add_web", "commit_web",
      "input",
      "push_spec_origin", "push_spec_upstream", "push_web_origin", "push_web_upstream",
      "exit">>

\* Mutant: the confirmation is asked after the first push.
main_steps_input_late ==
    <<"backup_spec", "backup_web",
      "edit_release", "add_release", "commit_release",
      "tag_release",
      "edit_dev", "add_dev", "commit_dev",
      "copy", "title", "underline", "add_web", "commit_web",
      "push_spec_origin",
      "input",
      "push_spec_upstream", "push_web_origin", "push_web_upstream",
      "exit">>

\* Mutant: the website repository is pushed to upstream before origin.
main_steps_upstream_first ==
    <<"backup_spec", "backup_web",
      "edit_release", "add_release", "commit_release",
      "tag_release",
      "edit_dev", "add_dev", "commit_dev",
      "copy", "title", "underline", "add_web", "commit_web",
      "input",
      "push_spec_origin", "push_spec_upstream", "push_web_upstream", "push_web_origin",
      "exit">>

\* main after get_repositories: prepare_release, input(), push_release, exit
main_steps ==
    <<"backup_spec", "backup_web",
      "edit_release", "add_release", "commit_release",
      "tag_release",
      "edit_dev", "add_dev", "commit_dev",
      "copy", "title", "underline", "add_web", "commit_web",
      "input",
      "push_spec_origin", "push_spec_upstream", "push_web_origin", "push_web_upstream",
      "exit">>

\* the statement that follows statement p
after(steps, p) == steps[(CHOOSE i \in 1..Len(steps) : steps[i] = p) + 1]

-----------------------------------------------------------------------------
(* get_version *)

GetVersion ==
    /\ pc = "get_version"
    /\ IF get_version_ok(argv)
       THEN /\ version' = argv[2]
            /\ pc' = check_steps[1]
            /\ UNCHANGED exit_status
       ELSE /\ Exit1
            /\ UNCHANGED version
    /\ UNCHANGED <<cur, argv, clock, url, branch, work, index, local, tags,
                   tracking, remote, log, start>>
    /\ UNCHANGED <<evars, lvars, ovars>>

-----------------------------------------------------------------------------
(* check_repo_state, called by get_repositories for toml and then toml.io *)

\* upstream = run("git", "config", "--get", "remote.upstream.url"); assert upstream == ...
CheckUpstream ==
    /\ pc = "config"
    /\ \E rc \in ReturnCodes(url[cur] /= "") :
        /\ Logged("config", cur, "", <<>>, "", rc)
        /\ IF rc = 0 /\ url[cur] = expected_upstream(cur)
           THEN pc' = after(check_steps, pc) /\ UNCHANGED exit_status
           ELSE Exit1
    /\ UNCHANGED <<cur, argv, version, clock, url, branch, work, index, local, tags,
                   tracking, remote, start>>
    /\ UNCHANGED <<evars, lvars, ovars>>

\* current_branch = run("git", "branch", "--show-current"); assert current_branch in ("main", "master")
CheckBranch ==
    /\ pc = "branch"
    /\ \E rc \in ReturnCodes(TRUE) :
        /\ Logged("branch", cur, "", <<>>, "", rc)
        /\ IF rc = 0 /\ branch[cur] \in {"main", "master"}
           THEN pc' = after(check_steps, pc) /\ UNCHANGED exit_status
           ELSE Exit1
    /\ UNCHANGED <<cur, argv, version, clock, url, branch, work, index, local, tags,
                   tracking, remote, start>>
    /\ UNCHANGED <<evars, lvars, ovars>>

\* working_directory_state = run("git", "status", "--porcelain"); assert working_directory_state == ""
CheckStatus ==
    /\ pc = "status"
    /\ \E rc \in ReturnCodes(TRUE) :
        /\ Logged("status", cur, "", <<>>, "", rc)
        /\ IF rc = 0 /\ status_porcelain(cur) = {}
           THEN pc' = after(check_steps, pc) /\ UNCHANGED exit_status
           ELSE Exit1
    /\ UNCHANGED <<cur, argv, version, clock, url, branch, work, index, local, tags,
                   tracking, remote, start>>
    /\ UNCHANGED <<evars, lvars, ovars>>

\* Mutant: git pull upstream instead of git remote update: the commits of
\* upstream are also merged into the local branch.
RemoteUpdatePull ==
    /\ pc = "remote_update"
    /\ \E rc \in ReturnCodes(TRUE) :
        /\ Logged("remote update", cur, "", <<>>, "upstream", rc)
        /\ IF rc = 0
           THEN /\ tracking' = [tracking EXCEPT ![cur] = remote[cur]["upstream"].branch]
                /\ local' = [local EXCEPT ![cur] =
                                IF remote[cur]["upstream"].branch \subseteq Ids(@) THEN @
                                ELSE Append(@, [id |-> 3, message |-> <<"u", "p">>, tree |-> HEAD(cur).tree])]
                /\ pc' = after(check_steps, pc)
                /\ UNCHANGED exit_status
           ELSE /\ Exit1
                /\ UNCHANGED <<tracking, local>>
    /\ UNCHANGED <<cur, argv, version, clock, url, branch, work, index, tags,
                   remote, start>>
    /\ UNCHANGED <<evars, lvars, ovars>>

\* run("git", "remote", "update", "upstream")
RemoteUpdate ==
    /\ pc = "remote_update"
    /\ \E rc \in ReturnCodes(TRUE) :
        /\ Logged("remote update", cur, "", <<>>, "upstream", rc)
        /\ IF rc = 0
           THEN /\ tracking' = [tracking EXCEPT ![cur] = remote[cur]["upstream"].branch]
                /\ pc' = after(check_steps, pc)
                /\ UNCHANGED exit_status
           ELSE /\ Exit1
                /\ UNCHANGED tracking
    /\ UNCHANGED <<cur, argv, version, clock, url, branch, work, index, local, tags,
                   remote, start>>
    /\ UNCHANGED <<evars, lvars, ovars>>

\* deviation = run("git", "rev-list", f"{current_branch}..upstream/{current_branch}", "--left-right")
\* assert not deviation; then get_repositories goes on to toml.io, or returns
CheckDeviation ==
    /\ pc = "rev_list"
    /\ \E rc \in ReturnCodes(TRUE) :
        /\ Logged("rev-list", cur, "", <<>>, "", rc)
        /\ IF rc = 0 /\ rev_list(Ids(local[cur]), tracking[cur]) = {}
           THEN /\ pc' = IF cur = spec_repo THEN check_steps[1] ELSE main_steps[1]
                /\ cur' = website_repo
                /\ UNCHANGED exit_status
           ELSE /\ Exit1
                /\ UNCHANGED cur
    /\ UNCHANGED <<argv, version, clock, url, branch, work, index, local, tags,
                   tracking, remote, start>>
    /\ UNCHANGED <<evars, lvars, ovars>>

-----------------------------------------------------------------------------
(* prepare_release *)

\* "backup/{now}".format(now=str(int(datetime.now().timestamp())))
backup_tag == <<"b", "a", "c", "k", "u", "p", "/">> \o str(clock.timestamp)

date == strftime(clock)

\* f"TOML v{version}"
new_heading == <<"T", "O", "M", "L", " ", "v">> \o version

\* Mutant: the underline is as long as the version, not as the heading.
underline_of_version == repeat("=", Len(version))

\* "=" * len(new_heading)
underline == repeat("=", Len(new_heading))

Unrun == <<cur, argv, version, clock, url, branch, start>>

\* run("git", "tag", "-m", message, name, cwd=r): the tag points at HEAD
GitTag(r, message, name, next) ==
    \E rc \in ReturnCodes(git_tag_ok(r, name)) :
        /\ Logged("tag", r, "", name, "", rc)
        /\ IF rc = 0
           THEN /\ tags' = [tags EXCEPT ![r] = @ \cup
                             {[name |-> name, message |-> message, target |-> HEAD(r).id]}]
                /\ pc' = next
                /\ UNCHANGED exit_status
           ELSE /\ Exit1
                /\ UNCHANGED tags
        /\ UNCHANGED <<work, index, local, tracking, remote>>
        /\ UNCHANGED Unrun
        /\ UNCHANGED <<evars, lvars, ovars>>

\* change_line(path, line=edit.line, to=edit.to) on a file of r's working
\* tree; a missing file raises FileNotFoundError, which no task() catches
ChangeLine(r, path, edit, next) ==
    /\ IF work[r][path].exists
       THEN /\ work' = [work EXCEPT ![r][path].data = change_line(@, edit.line, edit.to)]
            /\ Logged("change_line", r, path, edit.line, "", 0)
            /\ pc' = next
            /\ UNCHANGED exit_status
       ELSE /\ Logged("change_line", r, path, edit.line, "", 1)
            /\ Exit1
            /\ UNCHANGED work
    /\ UNCHANGED <<index, local, tags, tracking, remote>>
    /\ UNCHANGED Unrun
    /\ UNCHANGED <<evars, lvars, ovars>>

\* git_commit, first half: run("git", "add", *files, cwd=repo)
GitAdd(r, path, next) ==
    \E rc \in ReturnCodes(git_add_ok(r, path)) :
        /\ Logged("add", r, path, <<>>, "", rc)
        /\ IF rc = 0
           THEN /\ index' = [index EXCEPT ![r][path] = work[r][path]]
                /\ pc' = next
                /\ UNCHANGED exit_status
           ELSE /\ Exit1
                /\ UNCHANGED index
        /\ UNCHANGED <<work, local, tags, tracking, remote>>
        /\ UNCHANGED Unrun
        /\ UNCHANGED <<evars, lvars, ovars>>

\* git_commit, second half: run("git", "commit", "-m", message, cwd=repo)
GitCommit(r, message, next) ==
    \E rc \in ReturnCodes(git_commit_ok(r)) :
        /\ Logged("commit", r, "", message, "", rc)
        /\ IF rc = 0
           THEN /\ local' = [local EXCEPT ![r] = Append(@,
                             [id |-> Len(@) + 10, message |-> message, tree |-> index[r]])]
                /\ pc' = next
                /\ UNCHANGED exit_status
           ELSE /\ Exit1
                /\ UNCHANGED local
        /\ UNCHANGED <<work, index, tags, tracking, remote>>
        /\ UNCHANGED Unrun
        /\ UNCHANGED <<evars, lvars, ovars>>

BackupTagSpec == pc = "backup_spec" /\ GitTag(spec_repo, <<"b", "a", "c", "k", "u", "p">>, backup_tag, after(main_steps, pc))
BackupTagWebsite == pc = "backup_web" /\ GitTag(website_repo, <<"b", "a", "c", "k", "u", "p">>, backup_tag, after(main_steps, pc))

\* with task("Updating changelog for release")
EditChangelogRelease == pc = "edit_release" /\ ChangeLine(spec_repo, changelog, release_edit(version, date), after(main_steps, pc))
AddChangelogRelease == pc = "add_release" /\ GitAdd(spec_repo, changelog, after(main_steps, pc))
CommitChangelogRelease == pc = "commit_release" /\ GitCommit(spec_repo, release_message(version), after(main_steps, pc))

\* with task("Creating release tag")
TagRelease == pc = "tag_release" /\ GitTag(spec_repo, release_message(version), version, after(main_steps, pc))

\* with task("Updating changelog for development")
Bump == <<"B", "u", "m", "p", " ", "f", "o", "r", " ", "d", "e", "v", "e", "l", "o", "p", "m", "e", "n", "t">>
EditChangelogDevelopment == pc = "edit_dev" /\ ChangeLine(spec_repo, changelog, development_edit(version, date), after(main_steps, pc))
AddChangelogDevelopment == pc = "add_dev" /\ GitAdd(spec_repo, changelog, after(main_steps, pc))
CommitChangelogDevelopment == pc = "commit_dev" /\ GitCommit(spec_repo, Bump, after(main_steps, pc))

\* with task("Copy to website"): shutil.copyfile(source_md, destination_md);
\* a missing source or destination directory raises, which no task() catches
CopyToWebsite ==
    /\ pc = "copy"
    /\ \E copied \in {work[spec_repo][source_md].exists, FALSE} :
        IF copied
        THEN /\ work' = [work EXCEPT ![website_repo][destination_md] =
                            File(work[spec_repo][source_md].data, "644")]
             /\ Logged("copyfile", website_repo, destination_md, <<>>, "", 0)
             /\ pc' = after(main_steps, pc)
             /\ UNCHANGED exit_status
        ELSE /\ Logged("copyfile", website_repo, destination_md, <<>>, "", 1)
             /\ Exit1
             /\ UNCHANGED work
    /\ UNCHANGED <<index, local, tags, tracking, remote>>
    /\ UNCHANGED Unrun
    /\ UNCHANGED <<evars, lvars, ovars>>

\* with task("Update title")
UpdateTitle ==
    pc = "title" /\ ChangeLine(website_repo, destination_md,
                               [line |-> <<"T", "O", "M", "L">>, to |-> <<new_heading>>], after(main_steps, pc))
UpdateUnderline ==
    pc = "underline" /\ ChangeLine(website_repo, destination_md,
                                   [line |-> <<"=", "=", "=", "=">>,
                                    to |-> <<underline>>], after(main_steps, pc))

\* with task("Commit new version")
AddWebsite == pc = "add_web" /\ GitAdd(website_repo, destination_md, after(main_steps, pc))
CommitWebsite == pc = "commit_web" /\ GitCommit(website_repo, release_message(version), after(main_steps, pc))

-----------------------------------------------------------------------------
(* main: the confirmation, then push_release *)

\* input("Press enter when ready.") returns
Confirm ==
    /\ pc = "input"
    /\ Logged("input", spec_repo, "", <<>>, "", 0)
    /\ pc' = after(main_steps, pc)
    /\ UNCHANGED <<exit_status, work, index, local, tags, tracking, remote>>
    /\ UNCHANGED Unrun
    /\ UNCHANGED <<evars, lvars, ovars>>

\* the operator closes the process at the prompt (EOF or interrupt)
Cancel ==
    /\ pc = "input"
    /\ Exit1
    /\ UNCHANGED <<work, index, local, tags, tracking, remote, log>>
    /\ UNCHANGED Unrun
    /\ UNCHANGED <<evars, lvars, ovars>>

\* run("git", "push", rm, "HEAD", [tag], cwd=r). A push that fails may have
\* updated the branch and been refused the tag.
GitPush(r, rm, tag, next) ==
    \E rc \in ReturnCodes(git_push_ok(r, rm, tag)) :
        /\ Logged("push", r, "", tag, rm, rc)
        /\ IF rc = 0
           THEN /\ remote' = [remote EXCEPT ![r][rm] =
                                [branch |-> Ids(local[r]),
                                 tags |-> IF tag = <<>> THEN @.tags ELSE @.tags \cup {tag}]]
                /\ pc' = next
                /\ exit_status' = IF next = "exit" THEN 0 ELSE exit_status
           ELSE /\ Exit1
                /\ \E branch_pushed \in {FALSE, tag /= <<>> /\ remote[r][rm].branch \subseteq Ids(local[r])} :
                      remote' = IF branch_pushed
                                THEN [remote EXCEPT ![r][rm].branch = Ids(local[r])]
                                ELSE remote
        /\ UNCHANGED <<work, index, local, tags, tracking>>
        /\ UNCHANGED Unrun
        /\ UNCHANGED <<evars, lvars, ovars>>

\* with task("specs repository")
PushSpecOrigin == pc = "push_spec_origin" /\ GitPush(spec_repo, "origin", version, after(main_steps, pc))
PushSpecUpstream == pc = "push_spec_upstream" /\ GitPush(spec_repo, "upstream", version, after(main_steps, pc))

\* with task("website repository")
PushWebsiteOrigin == pc = "push_web_origin" /\ GitPush(website_repo, "origin", <<>>, after(main_steps, pc))
PushWebsiteUpstream == pc = "push_web_upstream" /\ GitPush(website_repo, "upstream", <<>>, after(main_steps, pc))

-----------------------------------------------------------------------------
(* The runs checked: arguments, clock, repositories and documents at start *)

V100 == <<"1", ".", "0", ".", "0">>

Argvs ==
    {<<"release.py">>,
     <<"release.py", V100>>,
     <<"release.py", V100 \o <<"+", "b">>>>,
     <<"release.py", <<"0", "1", ".", "0", ".", "0">>>>,
     <<"release.py", V100 \o <<LF>>>>,
     <<"release.py", V100, V100>>}

Clocks == {[timestamp |-> 1600000000, year |-> 2020, month |-> 9, day |-> 13]}

\* toml.md: the heading "TOML" / "====", a blank line, a line of text
TomlMd == <<"T", "O", "M", "L", LF, "=", "=", "=", "=", LF, LF, "x", LF>>

\* the document prepare_release writes for version 1.0.0
V100Md == <<"T", "O", "M", "L", " ", "v", "1", ".", "0", ".", "0", LF>>
              \o repeat("=", 11) \o <<LF, LF, "x", LF>>

\* CHANGELOG.md with the marker line, without it, and with the marker as an
\* unterminated last line, the last two also with "\r\n" line ends;
\* specs/en/v{version}.md absent, stale, or already final
Documents ==
    {[changelog |-> unreleased_heading \o <<LF, "x", LF>>,
      source |-> TomlMd, destination |-> NoFile],
     [changelog |-> <<"x", LF>>,
      source |-> TomlMd, destination |-> NoFile],
     [changelog |-> <<"x", LF>> \o unreleased_heading,
      source |-> TomlMd, destination |-> NoFile],
     [changelog |-> <<"x", CR, LF>>,
      source |-> TomlMd, destination |-> NoFile],
     [changelog |-> <<"x", CR, LF>> \o unreleased_heading,
      source |-> TomlMd, destination |-> NoFile],
     [changelog |-> unreleased_heading \o <<LF, "x", LF>>,
      source |-> TomlMd, destination |-> File(<<"o", "l", "d", LF>>, "644")],
     [changelog |-> unreleased_heading \o <<LF, "x", LF>>,
      source |-> TomlMd, destination |-> File(V100Md, "644")]}

RepoStates ==
    [url : {"ok", "git@github.com:someone/fork.git"},
     branch : {"main", "master", "dev"},
     dirty : BOOLEAN,
     relation : {"same", "ahead", "behind", "diverged"}]

Tree(r, docs) ==
    [p \in Paths |->
        IF r = spec_repo /\ p = changelog THEN File(docs.changelog, "644")
        ELSE IF r = spec_repo /\ p = source_md THEN File(docs.source, "644")
        ELSE IF r = website_repo /\ p = destination_md THEN docs.destination
        ELSE NoFile]

Base(tree) == [id |-> 1, message |-> <<"b", "a", "s", "e">>, tree |-> tree]
Wip(tree) == [id |-> 2, message |-> <<"w", "i", "p">>, tree |-> tree]

InitRepos(st, docs) ==
    /\ url = [r \in Repos |-> IF st[r].url = "ok" THEN expected_upstream(r) ELSE st[r].url]
    /\ branch = [r \in Repos |-> st[r].branch]
    /\ local = [r \in Repos |->
                  IF st[r].relation \in {"ahead", "diverged"}
                  THEN <<Base(Tree(r, docs)), Wip(Tree(r, docs))>>
                  ELSE <<Base(Tree(r, docs))>>]
    /\ index = [r \in Repos |-> Tree(r, docs)]
    /\ work = [r \in Repos |->
                  IF st[r].dirty
                  THEN [Tree(r, docs) EXCEPT !["scratch.txt"] = File(<<"x">>, "644")]
                  ELSE Tree(r, docs)]
    /\ tags = [r \in Repos |-> {}]
    /\ tracking = [r \in Repos |-> {1}]
    /\ remote = [r \in Repos |->
                  [rm \in Remotes |->
                     [branch |-> IF rm = "upstream" /\ st[r].relation \in {"behind", "diverged"}
                                 THEN {1, 3} ELSE {1},
                      tags |-> {}]]]

Snapshot == [work |-> work, index |-> index, local |-> local, tags |-> tags, remote |-> remote]

EditIdle ==
    /\ epc = "idle"
    /\ given = NoFile
    /\ tmp = NoFile
    /\ it = <<>>
    /\ job = [line |-> <<>>, to |-> <<>>]
    /\ jobs = <<>>
    /\ before = <<>>
    /\ orig = <<>>

LogIdle ==
    /\ lpc = 0
    /\ indent = 0
    /\ tasks = <<>>
    /\ raised = ""
    /\ left = <<>>

OtherIdle ==
    /\ who = 1
    /\ other = <<>>
    /\ invoked_at = ""

RunIdle ==
    /\ pc = "idle"
    /\ cur = spec_repo
    /\ argv = <<"release.py">>
    /\ version = <<>>
    /\ clock \in Clocks
    /\ exit_status = -1
    /\ InitRepos([r \in Repos |-> [url |-> "ok", branch |-> "main", dirty |-> FALSE, relation |-> "same"]],
                 CHOOSE d \in Documents : d.destination = NoFile /\ d.changelog[1] = "#")
    /\ log = <<>>
    /\ start = Snapshot

Init ==
    /\ pc = "get_version"
    /\ cur = spec_repo
    /\ argv \in Argvs
    /\ version = <<>>
    /\ clock \in Clocks
    /\ exit_status = -1
    /\ \E st \in [Repos -> RepoStates], docs \in Documents : InitRepos(st, docs)
    /\ log = <<>>
    /\ start = Snapshot
    /\ EditIdle
    /\ LogIdle
    /\ OtherIdle

Next ==
    \/ GetVersion
    \/ CheckUpstream \/ CheckBranch \/ CheckStatus \/ RemoteUpdate \/ CheckDeviation
    \/ BackupTagSpec \/ BackupTagWebsite
    \/ EditChangelogRelease \/ AddChangelogRelease \/ CommitChangelogRelease
    \/ TagRelease
    \/ EditChangelogDevelopment \/ AddChangelogDevelopment \/ CommitChangelogDevelopment
    \/ CopyToWebsite \/ UpdateTitle \/ UpdateUnderline \/ AddWebsite \/ CommitWebsite
    \/ Confirm \/ Cancel
    \/ PushSpecOrigin \/ PushSpecUpstream \/ PushWebsiteOrigin \/ PushWebsiteUpstream

Spec == Init /\ [][Next]_vars

-----------------------------------------------------------------------------
(* Runs over source documents: toml.md varies, the repositories are in order *)

MaxBody == 2

Title == <<"T", "O", "M", "L", LF, "=", "=", "=", "=", LF>>

BodyLines ==
    {<<"x">>, <<>>, <<"T", "O", "M", "L">>, <<"=", "=", "=", "=">>, <<"=", "=", "=", "=", "=">>}

Bodies ==
    UNION {{Join([i \in 1..n |-> b[i] \o <<LF>>]) : b \in [1..n -> BodyLines]} : n \in 0..MaxBody}

\* toml.md: the title and a body; also with "\r\n" line ends, without a
\* final newline, and the title alone without a final newline
SourceDocs ==
    {Title \o b : b \in Bodies}
        \cup {<<"T", "O", "M", "L", CR, LF, "=", "=", "=", "=", CR, LF, CR, LF, "x", CR, LF>>,
              Title \o <<"x">>,
              <<"T", "O", "M", "L", LF, "=", "=", "=", "=">>}

TitleVersions ==
    {V100, <<"9", ".", "9", ".", "9">>, <<"1", ".", "0", ".", "0", "-", "r", "c", ".", "1">>}

TitleDocuments ==
    [changelog : {unreleased_heading \o <<LF, "x", LF>>},
     source : SourceDocs,
     destination : {NoFile, File(<<"o", "l", "d", LF>>, "644")}]

InitTitle ==
    /\ pc = "get_version"
    /\ cur = spec_repo
    /\ argv \in {<<"release.py", v>> : v \in TitleVersions}
    /\ version = <<>>
    /\ clock \in Clocks
    /\ exit_status = -1
    /\ \E docs \in TitleDocuments :
          InitRepos([r \in Repos |-> [url |-> "ok", branch |-> "main", dirty |-> FALSE, relation |-> "same"]],
                    docs)
    /\ log = <<>>
    /\ start = Snapshot
    /\ EditIdle
    /\ LogIdle
    /\ OtherIdle

SpecTitle == InitTitle /\ [][Next]_vars

-----------------------------------------------------------------------------
(* get_version on its own: the arguments it is given *)

Numbers ==
    {<<"0">>, <<"1">>, <<"1", "0">>, <<"0", "1">>, <<"1", "U+0663">>, <<>>}

Suffixes ==
    {<<>>,
     <<"-", "r", "c">>, <<"-", "r", "c", ".", "1">>, <<"-", "0">>, <<"-", "0", "1">>,
     <<"-", "0", "a">>, <<"-">>, <<"-", "r", "c", ".">>, <<"-", "-">>,
     <<"+", "b">>, <<"-", "r", "c", "+", "b">>, <<"+">>,
     <<".", "1">>}

Heads == {<<>>, <<" ">>, <<"v">>}

Tails == {<<>>, <<LF>>, <<LF, LF>>, <<" ">>, <<"x">>, <<CR, LF>>}

VersionStrings ==
    {h \o a \o <<".">> \o b \o <<".">> \o c \o x \o t :
        h \in Heads, a \in Numbers, b \in Numbers, c \in Numbers, x \in Suffixes, t \in Tails}

VersionArgvs ==
    {<<"release.py">>, <<"release.py", V100, V100>>}
        \cup {<<"release.py", v>> : v \in VersionStrings}

InitVersion ==
    /\ pc = "get_version"
    /\ cur = spec_repo
    /\ argv \in VersionArgvs
    /\ version = <<>>
    /\ clock \in Clocks
    /\ exit_status = -1
    /\ InitRepos([r \in Repos |-> [url |-> "ok", branch |-> "main", dirty |-> FALSE, relation |-> "same"]],
                 CHOOSE d \in Documents : d.destination = NoFile /\ d.changelog[1] = "#")
    /\ log = <<>>
    /\ start = Snapshot
    /\ EditIdle
    /\ LogIdle
    /\ OtherIdle

SpecVersion == InitVersion /\ [][GetVersion]_vars

-----------------------------------------------------------------------------
(* The task sections of a run: `with task(...)` blocks and log.indent *)

Enter(message) == [kind |-> "enter", what |-> message, raises |-> {}]
Leave == [kind |-> "leave", what |-> "", raises |-> {}]

\* a statement that calls run() or asserts: it may raise AssertionError, and
\* like every statement it may raise something else (OSError, KeyboardInterrupt)
Command(what) == [kind |-> "do", what |-> what, raises |-> {"AssertionError", "Exception"}]
\* a statement without assertions: change_line, shutil.copyfile, input
Call(what) == [kind |-> "do", what |-> what, raises |-> {"Exception"}]

check_repo_state_body ==
    <<Command("config"), Command("branch"), Command("status"),
      Enter("Checking against remote"),
      Command("remote update"), Command("rev-list"),
      Leave>>

get_repositories_body ==
    <<Enter("Checking repositories"),
      Enter("toml")>> \o check_repo_state_body \o <<Leave,
      Enter("toml.io")>> \o check_repo_state_body \o <<Leave,
      Leave>>

prepare_release_body ==
    <<Command("tag"), Command("tag"),
      Enter("Updating changelog for release"),
      Call("change_line"), Command("add"), Command("commit"),
      Leave,
      Enter("Creating release tag"),
      Command("tag"),
      Leave,
      Enter("Updating changelog for development"),
      Call("change_line"), Command("add"), Command("commit"),
      Leave,
      Enter("Copy to website"),
      Call("copyfile"),
      Leave,
      Enter("Update title"),
      Call("change_line"), Call("change_line"),
      Leave,
      Enter("Commit new version"),
      Command("add"), Command("commit"),
      Leave>>

push_release_body ==
    <<Enter("specs repository"),
      Command("push"), Command("push"),
      Leave,
      Enter("website repository"),
      Command("push"), Command("push"),
      Leave>>

\* main, with the functions it calls written out
program ==
    <<Command("get_version")>>
        \o get_repositories_body
        \o <<Enter("Preparing release")>> \o prepare_release_body \o <<Leave>>
        \o <<Call("input")>>
        \o <<Enter("Publishing release")>> \o push_release_body \o <<Leave>>

Exited == Len(program) + 2

\* Mutant: log.indent -= 1 follows the yield without `finally`, so it is
\* skipped when the section is left by an exception.
leave_indent_normal_only(depth, exception) == IF exception = "" THEN depth - 1 ELSE depth

\* finally: log.indent -= 1
leave_indent(depth, exception) == depth - 1

\* log(f"{message}..."); log.indent += 1; try: yield
TaskEnter ==
    /\ lpc \in 1..Len(program) /\ raised = ""
    /\ program[lpc].kind = "enter"
    /\ tasks' = Append(tasks, [message |-> program[lpc].what, before |-> indent])
    /\ indent' = indent + 1
    /\ lpc' = lpc + 1
    /\ UNCHANGED <<raised, left>>
    /\ UNCHANGED <<evars, rvars, ovars>>

\* a statement of a section's body (or of main): it completes or raises
Statement ==
    /\ lpc \in 1..Len(program) /\ raised = ""
    /\ program[lpc].kind = "do"
    /\ \E outcome \in {""} \cup program[lpc].raises :
          /\ raised' = outcome
          /\ lpc' = IF outcome = "" THEN lpc + 1 ELSE lpc
    /\ UNCHANGED <<indent, tasks, left>>
    /\ UNCHANGED <<evars, rvars, ovars>>

\* except AssertionError as e: log(f"ERROR: {e}", error=True); sys.exit(1)
TaskExcept ==
    /\ raised = "AssertionError" /\ tasks /= <<>>
    /\ raised' = "SystemExit"
    /\ UNCHANGED <<lpc, indent, tasks, left>>
    /\ UNCHANGED <<evars, rvars, ovars>>

\* finally: log.indent -= 1, when the body completed and when an exception
\* (SystemExit from the except clause, or one task() does not catch) passes
TaskFinally ==
    /\ lpc \in 1..Len(program)
    /\ tasks /= <<>>
    /\ \/ raised = "" /\ program[lpc].kind = "leave"
       \/ raised \notin {"", "AssertionError"}
    /\ indent' = leave_indent(indent, raised)
    /\ tasks' = SubSeq(tasks, 1, Len(tasks) - 1)
    /\ left' = [message |-> tasks[Len(tasks)].message,
                before |-> tasks[Len(tasks)].before,
                after |-> indent']
    /\ lpc' = IF raised = "" THEN lpc + 1 ELSE lpc
    /\ UNCHANGED raised
    /\ UNCHANGED <<evars, rvars, ovars>>

\* main returned, or an exception left the outermost section
ProcessExit ==
    /\ \/ lpc = Len(program) + 1
       \/ lpc \in 1..Len(program) /\ raised /= "" /\ tasks = <<>>
    /\ lpc' = Exited
    /\ UNCHANGED <<indent, tasks, raised, left>>
    /\ UNCHANGED <<evars, rvars, ovars>>

InitLog ==
    /\ lpc = 1
    /\ indent = 0
    /\ tasks = <<>>
    /\ raised = ""
    /\ left = <<>>
    /\ EditIdle
    /\ RunIdle
    /\ OtherIdle

NextLog == TaskEnter \/ Statement \/ TaskExcept \/ TaskFinally \/ ProcessExit

SpecLog == InitLog /\ [][NextLog]_vars

-----------------------------------------------------------------------------
(* Two invocations on the same pair of repositories *)

\* what belongs to one process: its position, its variables, its own record
Process ==
    [pc |-> pc, cur |-> cur, argv |-> argv, version |-> version, clock |-> clock,
     exit_status |-> exit_status, log |-> log, start |-> start]

\* the second process reads the clock in the same second or in the next one
LaterClocks == {clock, [clock EXCEPT !.timestamp = @ + 1]}

\* `python release.py <version>` is started again for the same version,
\* wherever the first invocation is; there is no lock file and no check for
\* a running release
Invoke ==
    /\ invoked_at = ""
    /\ pc /= "get_version"
    /\ invoked_at' = pc
    /\ other' = Process
    /\ who' = 2
    /\ pc' = "get_version"
    /\ cur' = spec_repo
    /\ argv' = argv
    /\ version' = <<>>
    /\ clock' \in LaterClocks
    /\ exit_status' = -1
    /\ log' = <<>>
    /\ start' = Snapshot
    /\ UNCHANGED <<url, branch, work, index, local, tags, tracking, remote>>
    /\ UNCHANGED <<evars, lvars>>

\* the scheduler lets the other process take the next step
Switch ==
    /\ invoked_at /= ""
    /\ other.pc /= "exit"
    /\ who' = 3 - who
    /\ other' = Process
    /\ pc' = other.pc
    /\ cur' = other.cur
    /\ argv' = other.argv
    /\ version' = other.version
    /\ clock' = other.clock
    /\ exit_status' = other.exit_status
    /\ log' = other.log
    /\ start' = other.start
    /\ UNCHANGED <<url, branch, work, index, local, tags, tracking, remote, invoked_at>>
    /\ UNCHANGED <<evars, lvars>>

InitTwo ==
    /\ pc = "get_version"
    /\ cur = spec_repo
    /\ argv = <<"release.py", V100>>
    /\ version = <<>>
    /\ clock \in Clocks
    /\ exit_status = -1
    /\ \E relation \in {"same", "behind"} :
          InitRepos([r \in Repos |-> [url |-> "ok", branch |-> "main", dirty |-> FALSE,
                                      relation |-> IF r = spec_repo THEN relation ELSE "same"]],
                    CHOOSE d \in Documents : d.destination = NoFile /\ d.changelog[1] = "#")
    /\ log = <<>>
    /\ start = Snapshot
    /\ EditIdle
    /\ LogIdle
    /\ OtherIdle

NextTwo == Next \/ Invoke \/ Switch

SpecTwo == InitTwo /\ [][NextTwo]_vars

-----------------------------------------------------------------------------
(* Inputs of the text editor *)

Terminators == {<<LF>>, <<CR, LF>>, <<CR>>}

\* Files of at most MaxLines lines over the given line contents; every line
\* ends in a terminator, except that a non-empty last line may have none.
FilesOver(contents) ==
    LET ends == Terminators \cup {<<>>}
        shapes == UNION {[1..n -> contents \X ends] : n \in 0..MaxLines}
        ok(l) == \A i \in 1..Len(l) :
                    l[i][2] = <<>> => (i = Len(l) /\ l[i][1] /= <<>>)
    IN {Join([i \in 1..Len(l) |-> l[i][1] \o l[i][2]]) : l \in {x \in shapes : ok(x)}}

EditLine == <<"a">>
EditContents == {<<>>, EditLine, EditLine \o <<" ">>, <<"b">> \o EditLine}
EditCalls ==
    {[line |-> EditLine, to |-> <<>>],
     [line |-> EditLine, to |-> <<<<"c">>>>],
     [line |-> EditLine, to |-> <<<<"c">>, EditLine>>],
     [line |-> <<"c">>, to |-> <<EditLine>>],
     [line |-> <<>>, to |-> <<<<"c">>, <<"d">>>>]}

EditVersion == <<"1", ".", "2", ".", "3">>
EditDate == strftime([year |-> 2020, month |-> 1, day |-> 2])
ChangelogContents ==
    {unreleased_heading, unreleased_heading \o <<" ">>, <<"x">>,
     release_heading(EditVersion, EditDate)}
ChangelogCalls == <<release_edit(EditVersion, EditDate), development_edit(EditVersion, EditDate)>>

InitEdit ==
    \E input \in ({<<f, <<c>>>> : f \in FilesOver(EditContents), c \in EditCalls}
                    \cup {<<f, ChangelogCalls>> : f \in FilesOver(ChangelogContents)}),
       mode \in {"644", "755"} :
        /\ given = File(input[1], mode)
        /\ orig = input[1]
        /\ before = input[1]
        /\ job = Head(input[2])
        /\ jobs = Tail(input[2])
        /\ tmp = NoFile
        /\ it = <<>>
        /\ epc = "mkstemp"
        /\ RunIdle
        /\ LogIdle
        /\ OtherIdle

EditNext ==
    \/ Mkstemp \/ OpenFiles \/ LoopLine \/ CloseFiles \/ Copymode \/ Unlink
    \/ MoveRename \/ MoveCopyOpen \/ MoveCopyData \/ MoveUnlinkSrc
    \/ NextEdit \/ Crash

SpecEdit == InitEdit /\ [][EditNext]_vars

-----------------------------------------------------------------------------
(* Claims about the text editor, checked under SpecEdit *)

\* The lines of a file, without their terminators ("\n", "\r\n" or "\r");
\* a non-empty tail after the last terminator is a line too.
RECURSIVE TextLinesFrom(_, _)
TextLinesFrom(data, acc) ==
    IF data = <<>> THEN (IF acc = <<>> THEN <<>> ELSE <<acc>>)
    ELSE IF Head(data) = LF THEN <<acc>> \o TextLinesFrom(Tail(data), <<>>)
    ELSE IF Head(data) = CR
         THEN <<acc>> \o TextLinesFrom(IF Len(data) >= 2 /\ data[2] = LF
                                       THEN SubSeq(data, 3, Len(data))
                                       ELSE Tail(data), <<>>)
    ELSE TextLinesFrom(Tail(data), acc \o <<Head(data)>>)

TextLines(data) == TextLinesFrom(data, <<>>)

\* Every line equal to `line` replaced by the lines of `to`, the others kept.
ReplacedLines(ls, line, to) ==
    Join([i \in 1..Len(ls) |-> IF ls[i] = line THEN to ELSE <<ls[i]>>])

\* C4: when change_line has returned, the file consists of the lines it had
\* before the call, each line equal to the match value replaced by the
\* replacement lines in order and every other line kept in place - for every
\* file, a file whose last line has no terminating newline included.
C4_EditResult ==
    epc = "done" =>
        /\ given.exists
        /\ TextLines(given.data) = ReplacedLines(TextLines(before), job.line, job.to)

\* C5: if the process is terminated at any point of change_line, the target
\* path exists and holds the complete original or the complete rewritten content.
C5_CrashAtomic ==
    epc = "crashed" =>
        /\ given.exists
        /\ given.data \in {before, change_line(before, job.line, job.to)}

\* C6: when the match value equals no line of the file, change_line returns
\* and the file is byte-identical to what it was, line terminators included.
C6_ZeroMatchPassthrough ==
    (epc = "done" /\ \A i \in 1..Len(TextLines(before)) : TextLines(before)[i] /= job.line) =>
        /\ given.exists
        /\ given.data = before

\* C7: for a changelog with exactly one "## unreleased" line and no line equal
\* to the release heading, the two edits of prepare_release leave the file with
\* that line replaced by "## unreleased", "", "Nothing.", "", release heading and
\* every other line as it was.
C7_ChangelogRoundTrip ==
    LET ls == TextLines(orig)
        h == release_heading(EditVersion, EditDate)
        marks == {i \in 1..Len(ls) : ls[i] = unreleased_heading}
    IN (/\ epc = "done"
        /\ jobs = <<>>
        /\ job = development_edit(EditVersion, EditDate)
        /\ Cardinality(marks) = 1
        /\ \A i \in 1..Len(ls) : ls[i] /= h) =>
            LET k == CHOOSE i \in marks : TRUE
            IN TextLines(given.data) =
                  SubSeq(ls, 1, k - 1)
                    \o <<unreleased_heading, <<>>, Nothing, <<>>, h>>
                    \o SubSeq(ls, k + 1, Len(ls))

-----------------------------------------------------------------------------
(* Claims about the release run, checked under Spec *)

InspectorOps == {"config", "branch", "status", "remote update", "rev-list"}

StartHEAD(r) == start.local[r][Len(start.local[r])]

\* what the four checks look for, read off the repositories as the run found them
DirtyAtStart(r) == start.work[r] /= StartHEAD(r).tree \/ start.index[r] /= StartHEAD(r).tree
BehindAtStart(r) == start.remote[r]["upstream"].branch \ Ids(start.local[r]) /= {}
CheckFails(r) ==
    \/ url[r] /= expected_upstream(r)
    \/ branch[r] \notin {"main", "master"}
    \/ DirtyAtStart(r)
    \/ BehindAtStart(r)

\* no file, commit, tag or remote differs from the start, and only inspector commands ran
Untouched ==
    /\ Snapshot = start
    /\ \A i \in 1..Len(log) : log[i].op \in InspectorOps

\* C1: if version validation fails or a check of either repository fails, no
\* file has been edited or copied and no commit, tag or push has been made in
\* either repository, in any state of the run and so when it aborts.
C1_NoMutationBeforeValidation ==
    /\ (~get_version_ok(argv) \/ \E r \in Repos : CheckFails(r)) => Untouched
    /\ (pc = "exit" /\ (log = <<>> \/ log[Len(log)].op \in InspectorOps)) =>
            (Untouched /\ exit_status = 1)

\* the run aborted on the dirty working tree of the website repository
C1_Witness ==
    /\ pc = "exit"
    /\ cur = website_repo
    /\ DirtyAtStart(website_repo)
    /\ ~CheckFails(spec_repo)
    /\ log /= <<>>
    /\ log[Len(log)] = Event("status", website_repo, "", <<>>, "", 0)

\* check_repo_state returned for repository r
Passed(r) ==
    \E i \in 1..Len(log) :
        /\ log[i].op = "rev-list" /\ log[i].repo = r /\ log[i].rc = 0
        /\ (i < Len(log) \/ pc /= "exit")

\* C2: check_repo_state succeeds only if the local branch is neither ahead of
\* nor behind upstream/<branch>.
C2_DivergenceCheck ==
    \A r \in Repos : Passed(r) =>
        /\ Ids(start.local[r]) \ tracking[r] = {}
        /\ tracking[r] \ Ids(start.local[r]) = {}

\* C3: whenever the release tag exists in the spec repository it points at
\* the commit "Release v<version>" whose CHANGELOG.md has the dated heading in
\* place of "## unreleased", never at "Bump for development"; it was created
\* after the first changelog commit and before the second.
C3_TagPlacement ==
    /\ \A t \in tags[spec_repo] : t.name = version =>
          \E i \in 1..Len(local[spec_repo]) :
              LET c == local[spec_repo][i]
                  ls == TextLines(c.tree[changelog].data)
                  h == release_heading(version, date)
              IN /\ c.id = t.target
                 /\ c.message = release_message(version)
                 /\ c.message /= Bump
                 /\ \E k \in 1..Len(ls) : ls[k] = h
                 /\ \A k \in 1..Len(ls) : ls[k] /= unreleased_heading
                 /\ ls = ReplacedLines(TextLines(StartHEAD(spec_repo).tree[changelog].data),
                                       unreleased_heading, <<h>>)
    /\ \A i \in 1..Len(log) :
          (log[i].op = "tag" /\ log[i].arg = version /\ log[i].rc = 0) =>
              /\ \E j \in 1..(i - 1) :
                    log[j] = Event("commit", spec_repo, "", release_message(version), "", 0)
              /\ \A j \in 1..(i - 1) : ~(log[j].op = "commit" /\ log[j].arg = Bump)

PreparationOps ==
    <<"tag", "tag", "change_line", "add", "commit", "tag", "change_line", "add", "commit",
      "copyfile", "change_line", "change_line", "add", "commit">>

\* C8: no push happens before the confirmation; the prompt is reached only
\* after every preparation step succeeded, and there the spec repository holds
\* exactly the two new commits and the release tag, the website repository one
\* new commit, both working trees are clean and nothing has been pushed.
C8_PublishGating ==
    /\ \A i \in 1..Len(log) : log[i].op = "push" => \E j \in 1..(i - 1) : log[j].op = "input"
    /\ pc = "input" =>
          LET s == local[spec_repo]
              w == local[website_repo]
              n == Len(start.local[spec_repo])
              m == Len(start.local[website_repo])
              k == Len(log) - Len(PreparationOps)
          IN /\ \A i \in 1..Len(log) : log[i].rc = 0 /\ log[i].op \notin {"push", "input"}
             /\ k >= 0
             /\ \A i \in 1..Len(PreparationOps) : log[k + i].op = PreparationOps[i]
             /\ \A i \in 1..k : log[i].op \in InspectorOps
             /\ Len(s) = n + 2
             /\ SubSeq(s, 1, n) = start.local[spec_repo]
             /\ s[n + 1].message = release_message(version)
             /\ s[n + 2].message = Bump
             /\ \E t \in tags[spec_repo] : t.name = version /\ t.target = s[n + 1].id
             /\ Len(w) = m + 1
             /\ SubSeq(w, 1, m) = start.local[website_repo]
             /\ w[m + 1].message = release_message(version)
             /\ \A r \in Repos : status_porcelain(r) = {}
             /\ remote = start.remote

\* the process waits at the prompt
C8_Witness == pc = "input" /\ exit_status = -1 /\ Len(local[spec_repo]) >= 3

Pushes == SelectSeq(log, LAMBDA e : e.op = "push")

ExpectedPushes ==
    <<[repo |-> spec_repo, remote |-> "origin", arg |-> version],
      [repo |-> spec_repo, remote |-> "upstream", arg |-> version],
      [repo |-> website_repo, remote |-> "origin", arg |-> <<>>],
      [repo |-> website_repo, remote |-> "upstream", arg |-> <<>>]>>

\* C9: the pushes happen in the order spec to origin, spec to upstream (both
\* with the release tag), website to origin, website to upstream (branch head
\* only), all four in a run that ends with status 0; the release tag is never
\* created in or pushed from the website repository; no backup tag is pushed.
C9_PublishOrder ==
    /\ Len(Pushes) <= Len(ExpectedPushes)
    /\ \A i \in 1..Len(Pushes) :
          /\ Pushes[i].repo = ExpectedPushes[i].repo
          /\ Pushes[i].remote = ExpectedPushes[i].remote
          /\ Pushes[i].arg = ExpectedPushes[i].arg
          /\ i < Len(Pushes) => Pushes[i].rc = 0
    /\ exit_status = 0 => (Len(Pushes) = 4 /\ \A i \in 1..4 : Pushes[i].rc = 0)
    /\ \A t \in tags[website_repo] : t.name /= version
    /\ \A rm \in Remotes : remote[website_repo][rm].tags = {}
    /\ \A r \in Repos, rm \in Remotes : backup_tag \notin remote[r][rm].tags
    /\ \A i \in 1..Len(log) : log[i].op = "push" => log[i].arg /= backup_tag

\* every push succeeded and the process has exited
C9_Witness ==
    /\ pc = "exit" /\ exit_status = 0
    /\ \A r \in Repos, rm \in Remotes : remote[r][rm].branch = Ids(local[r])
    /\ \A rm \in Remotes : version \in remote[spec_repo][rm].tags

Made(op, r) ==
    Cardinality({i \in 1..Len(log) : log[i].op = op /\ log[i].repo = r /\ log[i].rc = 0})

\* C10: a command that returns non-zero is the last thing the run does: no
\* command, edit or push follows, the process has exited with a non-zero
\* status, and every commit and tag made before is still there; the process
\* exits with status 0 only after the push of the website repository to
\* upstream succeeded.
C10_FailStop ==
    /\ \A i \in 1..Len(log) :
          log[i].rc /= 0 => (i = Len(log) /\ pc = "exit" /\ exit_status > 0)
    /\ pc = "exit" <=> exit_status /= -1
    /\ exit_status = 0 =>
          (log /= <<>> /\ log[Len(log)] = Event("push", website_repo, "", <<>>, "upstream", 0))
    /\ \A r \in Repos :
          /\ Len(local[r]) = Len(start.local[r]) + Made("commit", r)
          /\ SubSeq(local[r], 1, Len(start.local[r])) = start.local[r]
          /\ Cardinality(tags[r]) = Made("tag", r)

\* a command failed after the release commit and the release tag were made
C10_Witness ==
    /\ pc = "exit" /\ exit_status = 1
    /\ log /= <<>> /\ log[Len(log)].rc /= 0
    /\ Made("commit", spec_repo) >= 1
    /\ Made("tag", spec_repo) >= 2

InspectionOrder == <<"config", "branch", "status", "remote update", "rev-list">>

\* the inspector commands run in repository r, in the order they ran
Inspection(r) == SelectSeq(log, LAMBDA e : e.repo = r /\ e.op \in InspectorOps)

Ran(op, r) == \E i \in 1..Len(log) : log[i].op = op /\ log[i].repo = r

\* C14: in each repository the checks run in the order upstream URL, branch
\* name, working-tree status, remote update, divergence; a check runs only if
\* every check before it passed, so a failing check is the last one of its
\* repository and no remote update follows it; the website repository is
\* looked at only after all four checks of the spec repository passed.
C14_InspectorOrder ==
    /\ \A r \in Repos :
          /\ Len(Inspection(r)) <= Len(InspectionOrder)
          /\ \A i \in 1..Len(Inspection(r)) :
                /\ Inspection(r)[i].op = InspectionOrder[i]
                /\ i < Len(Inspection(r)) => Inspection(r)[i].rc = 0
          /\ Ran("branch", r) => url[r] = expected_upstream(r)
          /\ Ran("status", r) => branch[r] \in {"main", "master"}
          /\ Ran("remote update", r) => ~DirtyAtStart(r)
          /\ Ran("rev-list", r) => tracking[r] = start.remote[r]["upstream"].branch
          /\ ~Ran("remote update", r) => tracking[r] = {1}
    /\ \A i \in 1..Len(log) : log[i].repo = website_repo =>
          /\ ~CheckFails(spec_repo)
          /\ \E j \in 1..(i - 1) : log[j] = Event("rev-list", spec_repo, "", <<>>, "", 0)
          /\ \A j \in (i + 1)..Len(log) :
                log[j].op \in InspectorOps => log[j].repo = website_repo
    /\ \A i \in 1..Len(log) : log[i].op \notin InspectorOps =>
          (\A r \in Repos : Passed(r)) /\ \A j \in (i + 1)..Len(log) : log[j].op \notin InspectorOps

\* the run aborted on the branch of the website repository: seven checks ran,
\* the website remote was never updated
C14_Witness ==
    /\ pc = "exit" /\ exit_status = 1
    /\ branch[website_repo] = "dev"
    /\ Len(log) = 7
    /\ log[7] = Event("branch", website_repo, "", <<>>, "", 0)
    /\ remote[website_repo]["upstream"].branch /= tracking[website_repo]

\* the run has edited a file, staged or committed something, or made the release tag in r
Changed(r) ==
    \/ work[r] /= start.work[r]
    \/ index[r] /= start.index[r]
    \/ local[r] /= start.local[r]
    \/ \E t \in tags[r] : t.name /= backup_tag

\* C15: in every state in which the run has edited a file, made a commit or
\* made the release tag in either repository, the tag backup/<timestamp>
\* exists in both repositories and points at the HEAD the repository had
\* before the run changed anything.
C15_BackupTags ==
    (\E r \in Repos : Changed(r)) =>
        \A r \in Repos : \E t \in tags[r] :
            /\ t.name = backup_tag
            /\ t.target = StartHEAD(r).id
            /\ \A u \in tags[r] : u.name = backup_tag => u = t

\* both repositories have new commits on top of the tagged ones
C15_Witness ==
    /\ \A r \in Repos : HEAD(r).id /= StartHEAD(r).id
    /\ \A r \in Repos : \E t \in tags[r] : t.name = backup_tag /\ t.target = StartHEAD(r).id
    /\ \E t \in tags[spec_repo] : t.name = version

\* CHANGELOG.md as the run found it has no line "## unreleased"
NoMarker ==
    LET ls == TextLines(start.work[spec_repo][changelog].data)
    IN \A k \in 1..Len(ls) : ls[k] /= unreleased_heading

\* C19: if CHANGELOG.md has no line equal to "## unreleased", the first edit
\* leaves the file unchanged, the commit that follows has nothing to commit
\* and fails, and the run aborts with no release commit, no release tag, no
\* change in the website repository and no push: only the backup tags exist.
C19_MissingMarker ==
    NoMarker =>
        /\ work[spec_repo][changelog] = start.work[spec_repo][changelog]
        /\ \A i \in 1..Len(log) : log[i].op = "commit" => (log[i].rc /= 0 /\ i = Len(log))
        /\ \A r \in Repos :
              /\ local[r] = start.local[r]
              /\ \A t \in tags[r] : t.name = backup_tag
              /\ remote[r] = start.remote[r]
        /\ work[website_repo] = start.work[website_repo]
        /\ \A i \in 1..Len(log) : log[i].op \notin {"copyfile", "push", "input"}
        /\ Ran("commit", spec_repo) => (pc = "exit" /\ exit_status = 1)

-----------------------------------------------------------------------------
(* Claims about get_version, checked under SpecVersion *)

\* a numeric identifier of the semantic-versioning grammar: ASCII digits, no leading zero
SemverNumeric(s) ==
    /\ Len(s) >= 1
    /\ All(s, AsciiDigit)
    /\ Len(s) > 1 => s[1] /= "0"

\* a pre-release identifier: letters, digits, hyphens; if all digits, numeric
SemverIdentifier(s) ==
    /\ Len(s) >= 1
    /\ All(s, AlnumHyphen)
    /\ All(s, AsciiDigit) => SemverNumeric(s)

\* the whole string is major.minor.patch with an optional -prerelease and no
\* build metadata
SemverWithoutBuild(s) ==
    LET h == find(s, "-")
        core == split(IF h = 0 THEN s ELSE SubSeq(s, 1, h - 1), ".")
        pre == split(IF h = 0 THEN <<>> ELSE SubSeq(s, h + 1, Len(s)), ".")
    IN /\ Len(core) = 3
       /\ \A i \in 1..3 : SemverNumeric(core[i])
       /\ h /= 0 => \A i \in 1..Len(pre) : SemverIdentifier(pre[i])

\* C12: get_version returns the argument unchanged if and only if the whole
\* string matches the semantic-versioning grammar and has no build metadata;
\* every other string - leading zeros, build metadata, any extra character
\* before or after, such as a trailing newline - is rejected.
C12_VersionValidation ==
    pc /= "get_version" =>
        IF Len(argv) = 2 /\ SemverWithoutBuild(argv[2])
        THEN pc /= "exit" /\ version = argv[2] /\ exit_status = -1
        ELSE pc = "exit" /\ version = <<>> /\ exit_status = 1

-----------------------------------------------------------------------------
(* Claims about the published document, checked under SpecTitle *)

SourceLines == TextLines(start.work[spec_repo][source_md].data)

\* toml.md begins with the title: the line "TOML", then the line "====",
\* each ended by a line terminator
SourceHasTitle ==
    LET d == start.work[spec_repo][source_md].data
    IN /\ Len(SourceLines) >= 2
       /\ SourceLines[1] = <<"T", "O", "M", "L">>
       /\ SourceLines[2] = <<"=", "=", "=", "=">>
       /\ d[Len(d)] \in {LF, CR} \/ Len(SourceLines) >= 3

\* C13: for every validated version, once the step "Update title" is done the
\* destination document begins with the line "TOML v<version>", immediately
\* followed by a line of "=" only that is as long as "TOML v<version>" (11
\* characters for 9.9.9).
C13_TitleRewrite ==
    (Made("change_line", website_repo) = 2 /\ SourceHasTitle) =>
        LET ls == TextLines(work[website_repo][destination_md].data)
        IN /\ Len(ls) >= 2
           /\ ls[1] = <<"T", "O", "M", "L", " ", "v">> \o version
           /\ All(ls[2], {"="})
           /\ Len(ls[2]) = Len(ls[1])
           /\ version = <<"9", ".", "9", ".", "9">> => Len(ls[2]) = 11

\* the title of v9.9.9 has been rewritten and is about to be staged
C13_Witness ==
    /\ pc = "add_web"
    /\ version = <<"9", ".", "9", ".", "9">>
    /\ SourceHasTitle
    /\ Len(TextLines(work[website_repo][destination_md].data)[2]) = 11

\* the document committed at specs/en/v<version>.md
PublishedLines == TextLines(HEAD(website_repo).tree[destination_md].data)

\* C16 as stated: for every source document the committed document differs
\* from the source only in its two title lines; every other line is there
\* unchanged and in the same order, whether or not the destination existed.
C16_PublishedFrame ==
    Made("commit", website_repo) = 1 =>
        /\ Len(PublishedLines) = Len(SourceLines)
        /\ \A k \in 3..Len(SourceLines) : PublishedLines[k] = SourceLines[k]

\* C16, amended: the committed document has the lines of the source in the
\* same order, and differs from it only in lines equal to "TOML" or "====",
\* wherever they stand: such a line is kept or has become the new title line
\* or the new underline respectively; whether or not the destination existed.
C16_PublishedFrameAmended ==
    Made("commit", website_repo) = 1 =>
        /\ Len(PublishedLines) = Len(SourceLines)
        /\ \A k \in 1..Len(SourceLines) :
              IF SourceLines[k] = <<"T", "O", "M", "L">>
              THEN PublishedLines[k] \in {SourceLines[k], <<"T", "O", "M", "L", " ", "v">> \o version}
              ELSE IF SourceLines[k] = <<"=", "=", "=", "=">>
              THEN PublishedLines[k] \in {SourceLines[k], [i \in 1..(6 + Len(version)) |-> "="]}
              ELSE PublishedLines[k] = SourceLines[k]

\* a document with a second "====" line was committed over an existing file
C16_Witness ==
    /\ Made("commit", website_repo) = 1
    /\ start.work[website_repo][destination_md].exists
    /\ \E k \in 3..Len(SourceLines) :
          /\ SourceLines[k] = <<"=", "=", "=", "=">>
          /\ PublishedLines[k] /= SourceLines[k]
    /\ \E k \in 3..Len(SourceLines) : SourceLines[k] = <<"x">> /\ PublishedLines[k] = <<"x">>

-----------------------------------------------------------------------------
(* Claims about the task sections, checked under SpecLog *)

\* C17: however a task section is left - its body completed, an
\* AssertionError was turned into exit, or another exception or the exit of a
\* nested section passed through it - log.indent after the section equals
\* log.indent before it; log.indent is never negative and equals the number
\* of task sections that are open.
C17_LogDepth ==
    /\ indent >= 0
    /\ indent = Len(tasks)
    /\ left /= <<>> => left.after = left.before
    /\ lpc = Exited => indent = 0

\* the process exited through sys.exit(1) raised two sections deep
C17_Witness ==
    /\ lpc = Exited
    /\ raised = "SystemExit"
    /\ left /= <<>> /\ left.message = "Checking repositories" /\ left.before = 0
    /\ indent = 0

-----------------------------------------------------------------------------
(* Claims about two invocations, checked under SpecTwo *)

\* the process of invocation i (2 only once it has been started)
Invocation(i) == IF who = i THEN Process ELSE other

Did(p, op) == \E i \in 1..Len(p.log) : p.log[i].op = op /\ p.log[i].rc = 0

\* invocation 2 was started after invocation 1 had ended with a failure
\* status, having made a commit and no push
StartedAfterAbort ==
    /\ invoked_at = "exit"
    /\ Invocation(1).exit_status > 0
    /\ Did(Invocation(1), "commit")
    /\ \A i \in 1..Len(Invocation(1).log) : Invocation(1).log[i].op /= "push"

\* C11: if an earlier invocation made at least one commit and then aborted
\* before pushing, a later invocation on the same repositories fails in the
\* inspector (clean-tree or up-to-date check) and so makes no new backup tag,
\* commit, release tag or file change.
C11_NoResume ==
    StartedAfterAbort =>
        LET p == Invocation(2)
        IN /\ \A i \in 1..Len(p.log) : p.log[i].op \in InspectorOps
           /\ p.pc \in {"get_version", "exit"} \cup {check_steps[i] : i \in 1..Len(check_steps)}
           /\ Snapshot = p.start

\* no invocation has run anything but inspector commands so far
OnlyInspected(p) == \A i \in 1..Len(p.log) : p.log[i].op \in InspectorOps

\* C18: the program takes no lock. Inspecting leaves no mark in the
\* repositories: as long as neither invocation has run a command of
\* prepare_release, they are exactly as both invocations found them, so the
\* checks of one cannot see the other; and an invocation that has passed
\* every check does not look again: if it has ended, it ended in or after its
\* first git tag. Hence both can pass before either mutates, and both then
\* edit, commit and tag (the witness).
C18_NoLock ==
    invoked_at /= "" =>
        /\ (OnlyInspected(Invocation(1)) /\ OnlyInspected(Invocation(2))) =>
              /\ Snapshot = Invocation(1).start
              /\ Snapshot = Invocation(2).start
        /\ \A i \in 1..2 :
              LET p == Invocation(i)
              IN (p.pc = "exit" /\ OnlyInspected(p)) =>
                    ~(\E k \in 1..(Len(p.log) - 1) :
                          p.log[k] = Event("rev-list", website_repo, "", <<>>, "", 0))

\* both invocations passed every check before either had run a command of
\* prepare_release, and both have since edited, committed and tagged
C18_Witness ==
    /\ invoked_at \in {check_steps[i] : i \in 1..Len(check_steps)} \cup {"backup_spec"}
    /\ \A i \in 1..2 :
          LET p == Invocation(i)
          IN /\ p.start = Invocation(1).start
             /\ Did(p, "change_line") /\ Did(p, "commit") /\ Did(p, "tag")
             /\ \E k \in 1..Len(p.log) :
                   p.log[k] = Event("commit", spec_repo, "", release_message(V100), "", 0)

=============================================================================
